---------------------------- MODULE Spec2Model ----------------------------
(***************************************************************************)
(* miniCassandra: a replicated key-value store.  Every process runs one    *)
(* Cluster (src/src/Cluster.js) holding one ConsistentHashing ring and one *)
(* Node (both in src/src/ConsistentHashing.js).  Nodes talk over socket.io *)
(* connections: the node that calls connectToPeer holds the client end,    *)
(* the node that accepted the connection holds the server end and, after   *)
(* 'identify', a peers entry whose socket is that server end.              *)
(*                                                                         *)
(* Time is the wall clock Date.now() in milliseconds; the model clock      *)
(* moves in steps of TickMs.                                               *)
(***************************************************************************)
EXTENDS Integers, Sequences, FiniteSets, TLC

VARIABLES
    now,                \* Date.now(), the same on every node (no skew)
    replicationFactor,  \* Cluster.replicationFactor (constructor argument)
    hashPos,            \* hashToPosition(hash(x)) for the strings that are hashed
    status,             \* per node: "absent" | "up" | "dead" (process state)
    ch,                 \* per node: the ConsistentHashing object
    data,               \* per node: Node.data      (key -> value)
    metadata,           \* per node: Node.metadata  (key -> {version,timestamp,nodeId})
    peers,              \* per node: Node.peers     (peer id -> server-side socket)
    lastHeartbeat,      \* per node: Node.lastHeartbeat (peer id -> ms)
    nextBeat,           \* per node: when the setInterval of startHeartbeat fires next
    conns,              \* per <<client, server>>: the socket.io connections the
                        \* client opened to the server, in order of creation
    added,              \* number of POST /cluster/nodes requests so far (history)
    join,               \* per node: position inside Cluster.joinCluster
    puts,               \* the PUT operations, in order of submission
    gets,               \* the GET operations, in order of submission
    declared,           \* per node: peers its detector declared failed (history)
    killedAt,           \* per node: when the process was killed, and the processes
                        \* started by then (history)
    run,                \* the limits of the run under observation
    returned            \* the last call made on an object taken alone, and
                        \* what it returned

vars == <<now, replicationFactor, hashPos, status, ch, data, metadata, peers,
          lastHeartbeat, nextBeat, conns, added, join, puts, gets, declared,
          killedAt, run, returned>>

-----------------------------------------------------------------------------
(* Bounds of the model *)

MaxTicks == 6           \* the clock stops after MaxTicks steps of TickMs
MaxLongTicks == 12      \* the same, in the runs that watch the failure detector
MaxStartTick == 0       \* the start scripts run during the first clock steps
MaxConns == 2           \* connections ever opened from one node to another
MaxAddNode == 2         \* POST /cluster/nodes requests ever submitted
MaxPuts == 2            \* PUT requests ever submitted
MaxGets == 1            \* GET requests ever submitted
MaxLongPuts == 1        \* PUT requests in the runs that watch the failure detector
MaxLinkTicks == 3       \* the same, in the runs whose peers send about a write
MaxKills == 1           \* processes ever killed
VirtualNodes == 2       \* ConsistentHashing.virtualNodes (150 in the source)
MaxStampTick == 1       \* the latest timestamp of a record, when GET is taken alone
MaxPosition == 2        \* the largest position, when the ring is taken alone
MaxLiveTicks == 1       \* clock steps in the runs followed to the end of the requests

(* Program constants *)

HeartbeatInterval == 2000
TickMs == HeartbeatInterval \div 2   \* the step of the model clock
FailureThreshold == 10000
RequestTimeout == 3000
Version == 1

NodeIds == {"node-1", "node-2", "node-3"}
NodeIndex(n) == CASE n = "node-1" -> 0 [] n = "node-2" -> 1 [] n = "node-3" -> 2
Keys == {"user:2"}
ReplicationFactors == {1, 3}

NoNode == "none"
NoValue == 0            \* Map.get of an absent key: undefined
NoMeta == [version |-> 0, timestamp |-> -1, nodeId |-> NoNode]
NoCall == [op |-> "none"]   \* no call was made yet
NoBeat == -1            \* lastHeartbeat has no entry
NoSocket == 0           \* peers has no entry
Diverges == <<"diverges">>   \* the loop of getReplicaNodes never ends

Positions == 0 .. (Cardinality(NodeIds) * VirtualNodes)

Range(s) == {s[i] : i \in 1..Len(s)}

-----------------------------------------------------------------------------
(* ConsistentHashing *)

\* hashToPosition(hash(`${nodeId}:${i}`))
VNodePosition(n, i) == hashPos.vnode[n][i]

\* hashToPosition(hash(key))
KeyPosition(k) == hashPos.key[k]

RECURSIVE SortedSeq(_)
SortedSeq(S) ==
    IF S = {} THEN <<>>
    ELSE LET m == CHOOSE x \in S : \A y \in S : x <= y
         IN  <<m>> \o SortedSeq(S \ {m})

EmptyRing == [ring |-> [p \in Positions |-> NoNode],
              sortedHashes |-> <<>>,
              nodes |-> <<>>]

RingKeys(r) == {p \in Positions : r[p] # NoNode}

addNode(c, nodeId) ==
    LET ring2 == [p \in Positions |->
                    IF \E i \in 0..(VirtualNodes - 1) : VNodePosition(nodeId, i) = p
                    THEN nodeId ELSE c.ring[p]]
    IN  [ring |-> ring2,
         sortedHashes |-> SortedSeq(RingKeys(ring2)),
         nodes |-> IF nodeId \in Range(c.nodes) THEN c.nodes
                   ELSE Append(c.nodes, nodeId)]

\* a removal that forgets the node and leaves its ring entries
removeNodeFromTable(c, nodeId) ==
    [c EXCEPT !.nodes = SelectSeq(c.nodes, LAMBDA x : x # nodeId)]

removeNode(c, nodeId) ==
    IF nodeId \notin Range(c.nodes) THEN c
    ELSE LET ring2 == [p \in Positions |->
                         IF \E i \in 0..(VirtualNodes - 1) : VNodePosition(nodeId, i) = p
                         THEN NoNode ELSE c.ring[p]]
         IN  [ring |-> ring2,
              sortedHashes |-> SortedSeq(RingKeys(ring2)),
              nodes |-> SelectSeq(c.nodes, LAMBDA x : x # nodeId)]

\* a walk that always starts at the first sorted position
StartAtFirst(c, position) == 1

\* index (1-based) of the first sorted position >= position, the first one if none
StartIndex(c, position) ==
    LET hits == {i \in 1..Len(c.sortedHashes) : c.sortedHashes[i] >= position}
    IN  IF hits = {} THEN 1 ELSE CHOOSE i \in hits : \A j \in hits : i <= j

getNode(c, key) ==
    IF Len(c.sortedHashes) = 0 THEN NoNode
    ELSE c.ring[c.sortedHashes[StartIndex(c, KeyPosition(key))]]

\* the while loop of getReplicaNodes; fuel counts the ring entries not yet
\* visited: a full turn that leaves the set short means the loop never ends
RECURSIVE CollectReplicas(_, _, _, _, _)
CollectReplicas(c, rf, replicas, currentIndex, fuel) ==
    IF ~(Len(replicas) < rf /\ Len(replicas) < Len(c.nodes)) THEN replicas
    ELSE IF fuel = 0 THEN Diverges
    ELSE LET nodeId == c.ring[c.sortedHashes[currentIndex]]
             next == IF nodeId \in Range(replicas) THEN replicas
                     ELSE Append(replicas, nodeId)
         IN  CollectReplicas(c, rf, next,
                             (currentIndex % Len(c.sortedHashes)) + 1, fuel - 1)

getReplicaNodes(c, rf, key) ==
    IF Len(c.sortedHashes) = 0 THEN <<>>
    ELSE CollectReplicas(c, rf, <<>>, StartIndex(c, KeyPosition(key)),
                         Len(c.sortedHashes))

-----------------------------------------------------------------------------
(* Cluster and Node *)

\* a quorum of half the replicas
QuorumSizeHalf(rf) == rf \div 2

\* Cluster constructor: this.quorumSize
QuorumSize(rf) == (rf \div 2) + 1

\* the listeners connectToPeer registers on the client end of a connection
ClientListeners == {"connect", "connect_error"}

\* a client end that answers whatever it receives
PeerHandlesAll(event) == TRUE

\* An event emitted on the server end of a connection (peers.get(id).socket)
\* arrives at the client end: it runs a handler, and can be acknowledged,
\* only if the client end listens for it.  The sockets of connectToPeer
\* listen for ClientListeners; run.acks lists what the peers of the run
\* answer besides.
PeerHandles(event) == event \in ClientListeners \/ event \in run.acks

Up(n) == status[n] = "up"

Links == NodeIds \X NodeIds

\* a connection just opened by connectToPeer: 'identify' is on its way, the
\* server end has no peerId yet
NewConn == [peerId |-> NoNode, identify |-> TRUE, connected |-> TRUE,
            disconnect |-> FALSE]

\* connectToPeer of client to server resolved
Connected(client, server) ==
    [conns EXCEPT ![<<client, server>>] = Append(@, NewConn)]

CanOpen(client, server) == Len(conns[<<client, server>>]) < MaxConns

\* connectToPeer resolves only when the peer accepts the connection
CanConnect(server) == Up(server)

\* Node.storeData; timestamp is the Date.now() it reads
StoreData(n, key, value, version, timestamp) ==
    /\ data' = [data EXCEPT ![n][key] = value]
    /\ metadata' = [metadata EXCEPT ![n][key] =
                      [version |-> version, timestamp |-> timestamp, nodeId |-> n]]

\* Node.getData
GetData(n, key) ==
    IF data[n][key] # NoValue
    THEN [value |-> data[n][key], metadata |-> metadata[n][key]]
    ELSE [value |-> NoValue, metadata |-> NoMeta]

NoJoin == [pc |-> "idle", seeds |-> <<>>, todo |-> <<>>]

\* the seed addresses each start script passes to joinCluster; the script of
\* node-1 does not call it
SeedNodes(n) ==
    CASE n = "node-1" -> <<>>
      [] n = "node-2" -> <<"node-1">>
      [] n = "node-3" -> <<"node-1", "node-2">>

\* Handlers run to completion and take no time on the model clock.  Whatever
\* the event loops can run at an instant (the events of the connections, the
\* steps of a join, the timers and timeouts that are due) runs before the next
\* client request and before the clock moves.
\* What the event loops still have to do at this instant: deliver an event
\* of a connection, go on with a join
Delivering ==
    \E l \in Links : \E i \in 1..Len(conns[l]) :
        Up(l[2]) /\ (conns[l][i].identify \/ conns[l][i].disconnect)
Joining == \E n \in NodeIds : Up(n) /\ join[n].pc \in {"connect", "ring", "merge"}

\* events that are due now: the clock may not pass them
TimerDue == \E n \in NodeIds : Up(n) /\ nextBeat[n] <= now
OpDue == \/ \E i \in 1..Len(puts) :
                ~puts[i].done /\ Up(puts[i].coord) /\ puts[i].deadline <= now
         \/ \E i \in 1..Len(gets) :
                ~gets[i].done /\ Up(gets[i].coord) /\ gets[i].deadline <= now
Quiet == ~TimerDue /\ ~OpDue /\ ~Delivering /\ ~Joining

\* the instants at which clients submit requests
ClientInstant == Quiet /\ now % RequestTimeout = 0
CanTick == now + TickMs <= run.ticks * TickMs /\ Quiet

-----------------------------------------------------------------------------
(* The initial state: no process started *)

\* the positions of the virtual nodes and of the keys.  No two strings share a
\* position, and the nodes follow "user:2" around the ring in the order sha256
\* gives them: node-3, node-2, node-1
ClusterHash ==
    [vnode |-> [n \in NodeIds |->
                  [i \in 0..(VirtualNodes - 1) |->
                      i * Cardinality(NodeIds) + (Cardinality(NodeIds) - 1 - NodeIndex(n))]],
     key |-> [k \in Keys |-> 0]]

\* no process, no request, no call
NoCluster ==
    /\ now = 0
    /\ returned = NoCall
    /\ status = [n \in NodeIds |-> "absent"]
    /\ ch = [n \in NodeIds |-> EmptyRing]
    /\ data = [n \in NodeIds |-> [k \in Keys |-> NoValue]]
    /\ metadata = [n \in NodeIds |-> [k \in Keys |-> NoMeta]]
    /\ peers = [n \in NodeIds |-> [m \in NodeIds |-> NoSocket]]
    /\ lastHeartbeat = [n \in NodeIds |-> [m \in NodeIds |-> NoBeat]]
    /\ nextBeat = [n \in NodeIds |-> 0]
    /\ conns = [l \in Links |-> <<>>]
    /\ added = 0
    /\ join = [n \in NodeIds |-> NoJoin]
    /\ puts = <<>>
    /\ gets = <<>>
    /\ declared = [n \in NodeIds |-> {}]
    /\ killedAt = [n \in NodeIds |-> [at |-> -1, created |-> {}]]

\* the state before any start script has run
NoProcess ==
    /\ NoCluster
    /\ replicationFactor \in ReplicationFactors
    /\ hashPos = ClusterHash

\* the runs under observation: short ones with MaxPuts writes and a fixed
\* membership, or with one write less and MaxAddNode membership requests
Runs ==
    {[ticks |-> MaxTicks, puts |-> MaxPuts, gets |-> MaxGets, adds |-> 0, kills |-> 0,
      late |-> FALSE, sent |-> {},
      acks |-> {}, early |-> FALSE, closes |-> FALSE],
     [ticks |-> MaxTicks, puts |-> MaxPuts - 1, gets |-> MaxGets,
      adds |-> MaxAddNode, kills |-> 0, late |-> FALSE, sent |-> {},
      acks |-> {}, early |-> FALSE, closes |-> FALSE]}

\* long runs, in which the failure detector acts: with a membership request
\* and no read, or with a killed process
LongRuns ==
    {[ticks |-> MaxLongTicks, puts |-> MaxLongPuts, gets |-> 0,
      adds |-> MaxAddNode - 1, kills |-> 0, late |-> FALSE, sent |-> {},
      acks |-> {}, early |-> FALSE, closes |-> FALSE],
     [ticks |-> MaxLongTicks, puts |-> MaxLongPuts, gets |-> MaxGets,
      adds |-> 0, kills |-> MaxKills, late |-> FALSE, sent |-> {},
      acks |-> {}, early |-> FALSE, closes |-> FALSE]}

Init == NoProcess /\ run \in Runs

InitFailure == NoProcess /\ run \in LongRuns

-----------------------------------------------------------------------------
(* Process start and stop *)

\* a start script runs: Cluster.createNode (new Node, which starts the
\* heartbeat interval, then consistentHashing.addNode of the node itself),
\* then joinCluster with the seeds of the script
CreateNode(n) ==
    /\ status[n] = "absent"
    /\ \A m \in NodeIds : NodeIndex(m) < NodeIndex(n) => status[m] # "absent"
    /\ Quiet
    /\ now <= MaxStartTick * TickMs
    /\ join' = [join EXCEPT ![n] =
                  IF SeedNodes(n) = <<>> THEN [NoJoin EXCEPT !.pc = "done"]
                  ELSE [pc |-> "connect", seeds |-> SeedNodes(n), todo |-> <<>>]]
    /\ status' = [status EXCEPT ![n] = "up"]
    /\ ch' = [ch EXCEPT ![n] = addNode(EmptyRing, n)]
    /\ nextBeat' = [nextBeat EXCEPT ![n] = now + HeartbeatInterval]
    /\ UNCHANGED <<now, replicationFactor, hashPos, data, metadata, peers,
                   lastHeartbeat, conns, added, puts, gets, declared, killedAt, run, returned>>

\* the process is killed (Ctrl+C): its memory is gone, every connection it had
\* closes, and the server end of each connection it had opened sees 'disconnect'
Kill(n) ==
    /\ Up(n)
    /\ ClientInstant
    /\ Cardinality({m \in NodeIds : status[m] = "dead"}) < run.kills
    /\ status' = [status EXCEPT ![n] = "dead"]
    /\ killedAt' = [killedAt EXCEPT ![n] =
                      [at |-> now, created |-> {m \in NodeIds : status[m] # "absent"}]]
    /\ conns' = [l \in Links |-> [i \in 1..Len(conns[l]) |->
                   IF l[2] = n
                   THEN [conns[l][i] EXCEPT !.connected = FALSE, !.identify = FALSE,
                                            !.disconnect = FALSE]
                   ELSE IF l[1] = n /\ conns[l][i].connected
                   THEN [conns[l][i] EXCEPT !.disconnect = Up(l[2])]
                   ELSE conns[l][i]]]
    /\ ch' = [ch EXCEPT ![n] = EmptyRing]
    /\ data' = [data EXCEPT ![n] = [k \in Keys |-> NoValue]]
    /\ metadata' = [metadata EXCEPT ![n] = [k \in Keys |-> NoMeta]]
    /\ peers' = [peers EXCEPT ![n] = [m \in NodeIds |-> NoSocket]]
    /\ lastHeartbeat' = [lastHeartbeat EXCEPT ![n] = [m \in NodeIds |-> NoBeat]]
    /\ join' = [join EXCEPT ![n] = NoJoin]
    /\ declared' = [declared EXCEPT ![n] = {}]
    /\ UNCHANGED <<now, replicationFactor, hashPos, nextBeat, added, puts, gets, run, returned>>

\* the wall clock advances
Tick ==
    /\ CanTick
    /\ now' = now + TickMs
    /\ UNCHANGED <<replicationFactor, hashPos, status, ch, data, metadata, peers,
                   lastHeartbeat, nextBeat, conns, added, join, puts, gets, declared,
                   killedAt, run, returned>>

-----------------------------------------------------------------------------
(* Peer links: Node.setupSocketIO *)

\* socket.on('identify') on the i-th connection from p to s
OnIdentify(p, s, i) ==
    /\ i \in 1..Len(conns[<<p, s>>])
    /\ conns[<<p, s>>][i].identify
    /\ Up(s)
    /\ conns' = [conns EXCEPT ![<<p, s>>][i].peerId = p,
                              ![<<p, s>>][i].identify = FALSE]
    /\ peers' = [peers EXCEPT ![s][p] = i]
    /\ lastHeartbeat' = [lastHeartbeat EXCEPT ![s][p] = now]
    /\ declared' = [declared EXCEPT ![s] = @ \ {p}]
    /\ UNCHANGED <<now, replicationFactor, hashPos, status, ch, data, metadata,
                   nextBeat, added, join, puts, gets, killedAt, run, returned>>

\* socket.on('disconnect') on the i-th connection from c to s
OnDisconnect(c, s, i) ==
    /\ i \in 1..Len(conns[<<c, s>>])
    /\ conns[<<c, s>>][i].disconnect
    /\ ~conns[<<c, s>>][i].identify
    /\ Up(s)
    /\ LET p == conns[<<c, s>>][i].peerId
       IN  /\ conns' = [conns EXCEPT ![<<c, s>>][i].connected = FALSE,
                                     ![<<c, s>>][i].disconnect = FALSE]
           /\ peers' = IF p # NoNode THEN [peers EXCEPT ![s][p] = NoSocket] ELSE peers
           /\ lastHeartbeat' = IF p # NoNode
                               THEN [lastHeartbeat EXCEPT ![s][p] = NoBeat]
                               ELSE lastHeartbeat
    /\ UNCHANGED <<now, replicationFactor, hashPos, status, ch, data, metadata,
                   nextBeat, added, join, puts, gets, declared, killedAt, run, returned>>

\* a detector that declares at the threshold
FailedPeersAtThreshold(n) ==
    {p \in NodeIds : /\ lastHeartbeat[n][p] # NoBeat
                     /\ now - lastHeartbeat[n][p] >= FailureThreshold}

\* Node.checkForFailedNodes: the peers to hand to handleNodeFailure
FailedPeers(n) ==
    {p \in NodeIds : /\ lastHeartbeat[n][p] # NoBeat
                     /\ now - lastHeartbeat[n][p] > FailureThreshold}

\* the setInterval callback of startHeartbeat.  The heartbeats and the
\* node_failure broadcast are emitted on the server ends held in peers: the
\* client ends do not listen for them (PeerHandles), so no state changes there.
\* handleNodeFailure deletes the peer from peers and lastHeartbeat.
HeartbeatTimer(n) ==
    /\ Up(n)
    /\ nextBeat[n] <= now
    /\ nextBeat' = [nextBeat EXCEPT ![n] = now + HeartbeatInterval]
    /\ peers' = [peers EXCEPT ![n] =
                   [p \in NodeIds |-> IF p \in FailedPeers(n) THEN NoSocket ELSE @[p]]]
    /\ lastHeartbeat' = [lastHeartbeat EXCEPT ![n] =
                   [p \in NodeIds |-> IF p \in FailedPeers(n) THEN NoBeat ELSE @[p]]]
    /\ declared' = [declared EXCEPT ![n] = @ \cup FailedPeers(n)]
    /\ UNCHANGED <<now, replicationFactor, hashPos, status, ch, data, metadata,
                   conns, added, join, puts, gets, killedAt, run, returned>>

-----------------------------------------------------------------------------
(* Membership: Cluster.joinCluster and Cluster.addNode *)

\* the head of the for loop: await connectToPeer(seedAddress).  The socket it
\* resolves to is dropped; a seed that does not answer is skipped (catch).
JoinConnect(n) ==
    /\ Up(n)
    /\ join[n].pc = "connect"
    /\ IF join[n].seeds = <<>>
       THEN /\ join' = [join EXCEPT ![n].pc = "done"]
            /\ conns' = conns
       ELSE IF CanConnect(Head(join[n].seeds))
       THEN /\ CanOpen(n, Head(join[n].seeds))
            /\ conns' = Connected(n, Head(join[n].seeds))
            /\ join' = [join EXCEPT ![n].pc = "ring"]
       ELSE /\ join' = [join EXCEPT ![n].seeds = Tail(@)]
            /\ conns' = conns
    /\ UNCHANGED <<now, replicationFactor, hashPos, status, ch, data, metadata, peers,
                   lastHeartbeat, nextBeat, added, puts, gets, declared, killedAt, run, returned>>

\* GET /cluster/ring of the seed: Cluster.getRingStatus lists getAllNodes()
JoinFetchRing(n) ==
    /\ Up(n)
    /\ join[n].pc = "ring"
    /\ LET seed == Head(join[n].seeds)
       IN  IF Up(seed)
           THEN join' = [join EXCEPT ![n].pc = "merge", ![n].todo = ch[seed].nodes]
           ELSE join' = [join EXCEPT ![n].pc = "connect", ![n].seeds = Tail(@)]
    /\ UNCHANGED <<now, replicationFactor, hashPos, status, ch, data, metadata, peers,
                   lastHeartbeat, nextBeat, conns, added, puts, gets, declared, killedAt, run, returned>>

\* one turn of the loop over ringInfo.nodes: addNode, then connectToPeer when
\* peers has no entry for the node; after the last turn the loop over the
\* seeds is left (break)
JoinMerge(n) ==
    /\ Up(n)
    /\ join[n].pc = "merge"
    /\ IF join[n].todo = <<>>
       THEN /\ join' = [join EXCEPT ![n].pc = "done"]
            /\ UNCHANGED <<ch, conns>>
       ELSE LET m == Head(join[n].todo)
            IN  /\ join' = [join EXCEPT ![n].todo = Tail(@)]
                /\ IF m = n
                   THEN UNCHANGED <<ch, conns>>
                   ELSE /\ ch' = [ch EXCEPT ![n] = addNode(@, m)]
                        /\ IF peers[n][m] = NoSocket /\ CanConnect(m)
                           THEN /\ CanOpen(n, m)
                                /\ conns' = Connected(n, m)
                           ELSE conns' = conns
    /\ UNCHANGED <<now, replicationFactor, hashPos, status, data, metadata, peers,
                   lastHeartbeat, nextBeat, added, puts, gets, declared, killedAt, run, returned>>

\* POST /cluster/nodes {nodeId, address}: Cluster.addNode (redistributeData
\* only logs)
AddNode(n, m) ==
    /\ Up(n)
    /\ ClientInstant
    /\ now <= MaxStartTick * TickMs \/ run.late
    /\ m # n
    /\ status[m] # "absent"
    /\ ch' = [ch EXCEPT ![n] = addNode(@, m)]
    /\ added < run.adds
    /\ added' = added + 1
    /\ IF CanConnect(m)
       THEN /\ CanOpen(n, m)
            /\ conns' = Connected(n, m)
       ELSE conns' = conns
    /\ UNCHANGED <<now, replicationFactor, hashPos, status, data, metadata, peers,
                   lastHeartbeat, nextBeat, join, puts, gets, declared, killedAt, run, returned>>

-----------------------------------------------------------------------------
(* The coordinator: Cluster.put and Cluster.get *)

\* peer && peer.socket
HasPeer(n, nodeId) == peers[n][nodeId] # NoSocket

\* every other node of the list is running and n holds an open link to it
AllLinked(n, replicaNodes) ==
    \A r \in Range(replicaNodes) \ {n} :
        Up(r) /\ HasPeer(n, r) /\ conns[<<r, n>>][peers[n][r]].connected

\* Node.replicateToPeers: one promise per target for which peers has an entry.
\* It resolves {success: true} when the peer acknowledges 'replicate_data',
\* else {success: false, error: 'timeout'} after RequestTimeout.
ReplicateResult(nodeId) ==
    IF PeerHandles("replicate_data")
    THEN [nodeId |-> nodeId, success |-> TRUE, error |-> "none"]
    ELSE [nodeId |-> nodeId, success |-> FALSE, error |-> "timeout"]

replicateToPeers(n, targetNodes) ==
    LET targets == SelectSeq(targetNodes, LAMBDA t : t # n /\ HasPeer(n, t))
    IN  [i \in 1..Len(targets) |-> ReplicateResult(targets[i])]

LocalWrite(n, replicaNodes) ==
    IF n \in Range(replicaNodes)
    THEN <<[nodeId |-> n, success |-> TRUE, error |-> "none"]>>
    ELSE <<>>

\* the Date.now() values a handler can read after an earlier read of now
LaterReads == {now} \cup (IF CanTick THEN {now + TickMs} ELSE {})

\* a tally in which one timeout fails every outcome
NoSuccessfulWrites(writeResults) ==
    IF \E i \in 1..Len(writeResults) : writeResults[i].error = "timeout"
    THEN 0
    ELSE Cardinality({i \in 1..Len(writeResults) : writeResults[i].success})

\* writeResults.filter(r => r.success).length
SuccessfulWrites(writeResults) ==
    Cardinality({i \in 1..Len(writeResults) : writeResults[i].success})

\* a tally that asks for more than a majority
QuorumAchievedStrict(count, rf) == count > QuorumSize(rf)

\* successfulWrites >= this.quorumSize
QuorumAchieved(count, rf) == count >= QuorumSize(rf)

\* Cluster.put up to the await of replicateToPeers.  value names the request:
\* the i-th PUT writes the value i.  timestamp is the Date.now() put reads,
\* stored the one storeData reads after it.
PutStart(n, key) ==
    /\ Up(n)
    /\ ClientInstant
    /\ Len(puts) < run.puts
    /\ \E stored \in LaterReads :
        LET value == Len(puts) + 1
            timestamp == now
            replicaNodes == getReplicaNodes(ch[n], replicationFactor, key)
            remote == replicateToPeers(n, replicaNodes)
        IN  /\ replicaNodes # Diverges
            /\ IF n \in Range(replicaNodes)
               THEN /\ StoreData(n, key, value, Version, stored)
                    /\ now' = stored
               ELSE /\ stored = now
                    /\ UNCHANGED <<data, metadata, now>>
            /\ puts' = Append(puts,
                  [coord |-> n, key |-> key, value |-> value, timestamp |-> timestamp,
                   replicaNodes |-> replicaNodes,
                   nodes |-> Range(ch[n].nodes),
                   writeResults |-> LocalWrite(n, replicaNodes) \o remote,
                   deadline |-> IF \E j \in 1..Len(remote) : remote[j].error = "timeout"
                                THEN now' + RequestTimeout ELSE now',
                   done |-> FALSE,
                   successfulWrites |-> 0, quorumSize |-> 0, success |-> FALSE,
                   linked |-> AllLinked(n, replicaNodes),
                   declared |-> declared[n],
                   created |-> {m \in NodeIds : status[m] # "absent"},
                   deadLong |-> {m \in NodeIds : /\ status[m] = "dead"
                                                 /\ now - killedAt[m].at > FailureThreshold}])
    /\ UNCHANGED <<replicationFactor, hashPos, status, ch, peers, lastHeartbeat,
                   nextBeat, conns, added, join, gets, declared, killedAt, run, returned>>

\* a put whose fan-out has no timers: it returns when every target has replied
PutReturnOnReplies(i) ==
    /\ i \in 1..Len(puts)
    /\ ~puts[i].done
    /\ Up(puts[i].coord)
    /\ puts[i].deadline <= now
    /\ \A j \in 1..Len(puts[i].writeResults) : puts[i].writeResults[j].error # "timeout"
    /\ LET s == SuccessfulWrites(puts[i].writeResults)
       IN  puts' = [puts EXCEPT ![i].done = TRUE,
                                ![i].successfulWrites = s,
                                ![i].quorumSize = QuorumSize(replicationFactor),
                                ![i].success = QuorumAchieved(s, replicationFactor)]
    /\ UNCHANGED <<now, replicationFactor, hashPos, status, ch, data, metadata, peers,
                   lastHeartbeat, nextBeat, conns, added, join, gets, declared, killedAt, run, returned>>

\* a put that, short of the quorum, deletes what it stored at the coordinator
PutReturnRollback(i) ==
    /\ i \in 1..Len(puts)
    /\ ~puts[i].done
    /\ Up(puts[i].coord)
    /\ puts[i].deadline <= now
    /\ LET s == SuccessfulWrites(puts[i].writeResults)
           kept == QuorumAchieved(s, replicationFactor)
       IN  /\ puts' = [puts EXCEPT ![i].done = TRUE,
                                   ![i].successfulWrites = s,
                                   ![i].quorumSize = QuorumSize(replicationFactor),
                                   ![i].success = kept]
           /\ data' = IF kept THEN data
                      ELSE [data EXCEPT ![puts[i].coord][puts[i].key] = NoValue]
           /\ metadata' = IF kept THEN metadata
                          ELSE [metadata EXCEPT ![puts[i].coord][puts[i].key] = NoMeta]
    /\ UNCHANGED <<now, replicationFactor, hashPos, status, ch, peers,
                   lastHeartbeat, nextBeat, conns, added, join, gets, declared, killedAt, run, returned>>

\* Cluster.put after the await: the tally and the response
PutReturn(i) ==
    /\ i \in 1..Len(puts)
    /\ ~puts[i].done
    /\ Up(puts[i].coord)
    /\ puts[i].deadline <= now
    /\ LET s == SuccessfulWrites(puts[i].writeResults)
       IN  puts' = [puts EXCEPT ![i].done = TRUE,
                                ![i].successfulWrites = s,
                                ![i].quorumSize = QuorumSize(replicationFactor),
                                ![i].success = QuorumAchieved(s, replicationFactor)]
    /\ UNCHANGED <<now, replicationFactor, hashPos, status, ch, data, metadata, peers,
                   lastHeartbeat, nextBeat, conns, added, join, gets, declared, killedAt, run, returned>>

\* Cluster.readFromPeer
readFromPeer(n, nodeId, key) ==
    IF ~HasPeer(n, nodeId)
    THEN [nodeId |-> nodeId, success |-> FALSE, error |-> "not_connected",
          data |-> GetData(nodeId, key), wait |-> FALSE]
    ELSE IF PeerHandles("read_request")
    THEN [nodeId |-> nodeId, success |-> data[nodeId][key] # NoValue,
          error |-> IF data[nodeId][key] # NoValue THEN "none" ELSE "not_found",
          data |-> GetData(nodeId, key), wait |-> FALSE]
    ELSE [nodeId |-> nodeId, success |-> FALSE, error |-> "timeout",
          data |-> GetData(nodeId, key), wait |-> TRUE]

\* a reduce that keeps its first record
First(readResults, latest, i) == latest

\* readResults.reduce(...) without an initial value: the first record, replaced
\* by a later one only when its timestamp is strictly greater
RECURSIVE Latest(_, _, _)
Latest(readResults, latest, i) ==
    IF i > Len(readResults) THEN latest
    ELSE Latest(readResults,
                IF readResults[i].data.metadata.timestamp > latest.data.metadata.timestamp
                THEN readResults[i] ELSE latest,
                i + 1)

\* Cluster.get up to the await of Promise.all
GetStart(n, key) ==
    /\ Up(n)
    /\ ClientInstant
    /\ Len(gets) < run.gets
    /\ LET replicaNodes == getReplicaNodes(ch[n], replicationFactor, key)
           localData == GetData(n, key)
           local == IF n \in Range(replicaNodes) /\ localData.value # NoValue
                    THEN <<[nodeId |-> n, success |-> TRUE, error |-> "none",
                            data |-> localData, wait |-> FALSE]>>
                    ELSE <<>>
           others == SelectSeq(replicaNodes, LAMBDA t : t # n)
           peerResults == [i \in 1..Len(others) |-> readFromPeer(n, others[i], key)]
           readResults == local \o SelectSeq(peerResults, LAMBDA r : r.success)
       IN  /\ replicaNodes # Diverges
           /\ gets' = Append(gets,
                 [coord |-> n, key |-> key, replicaNodes |-> replicaNodes,
                  readResults |-> readResults,
                  errors |-> SelectSeq(peerResults, LAMBDA r : ~r.success),
                  deadline |-> IF \E i \in 1..Len(peerResults) : peerResults[i].wait
                               THEN now + RequestTimeout ELSE now,
                  done |-> FALSE, found |-> FALSE, value |-> NoValue,
                  metadata |-> NoMeta, count |-> 0, quorumAchieved |-> FALSE,
                  linked |-> AllLinked(n, replicaNodes),
                  after |-> {i \in 1..Len(puts) : puts[i].done},
                  open |-> {i \in 1..Len(puts) : ~puts[i].done}])
    /\ UNCHANGED <<now, replicationFactor, hashPos, status, ch, data, metadata, peers,
                   lastHeartbeat, nextBeat, conns, added, join, puts, declared, killedAt, run, returned>>

\* Cluster.get after the await: not found (null), or the latest record
GetReturn(i) ==
    /\ i \in 1..Len(gets)
    /\ ~gets[i].done
    /\ Up(gets[i].coord)
    /\ gets[i].deadline <= now
    /\ LET rr == gets[i].readResults
       IN  IF Len(rr) = 0
           THEN gets' = [gets EXCEPT ![i].done = TRUE]
           ELSE LET latest == Latest(rr, rr[1], 2)
                IN  gets' = [gets EXCEPT
                               ![i].done = TRUE, ![i].found = TRUE,
                               ![i].value = latest.data.value,
                               ![i].metadata = latest.data.metadata,
                               ![i].count = Len(rr),
                               ![i].quorumAchieved = QuorumAchieved(Len(rr), replicationFactor)]
    /\ UNCHANGED <<now, replicationFactor, hashPos, status, ch, data, metadata, peers,
                   lastHeartbeat, nextBeat, conns, added, join, puts, declared, killedAt, run, returned>>

\* the status of a node in Cluster.getClusterStatus: the nodes listed are
\* those of the ring, alive when local or in peers
NotListed == "none"
NodeStatus(n, nodeId) ==
    IF nodeId \notin Range(ch[n].nodes) THEN NotListed
    ELSE IF nodeId = n \/ HasPeer(n, nodeId) THEN "alive"
    ELSE "failed"

getClusterStatus(n) ==
    [localNode |-> n,
     totalNodes |-> Len(ch[n].nodes),
     aliveNodes |-> Cardinality({m \in Range(ch[n].nodes) : NodeStatus(n, m) = "alive"}),
     replicationFactor |-> replicationFactor,
     quorumSize |-> QuorumSize(replicationFactor),
     nodes |-> [j \in 1..Len(ch[n].nodes) |->
                  [nodeId |-> ch[n].nodes[j], status |-> NodeStatus(n, ch[n].nodes[j])]]]

-----------------------------------------------------------------------------
(* The cluster as the repository runs it *)

Next ==
    \/ \E n \in NodeIds : CreateNode(n)
    \/ Tick
    \/ \E l \in Links : \E i \in 1..MaxConns : OnIdentify(l[1], l[2], i)
    \/ \E n \in NodeIds : HeartbeatTimer(n)
    \/ \E n \in NodeIds : JoinConnect(n)
    \/ \E n \in NodeIds : JoinFetchRing(n)
    \/ \E n \in NodeIds : JoinMerge(n)
    \/ \E n \in NodeIds : \E m \in NodeIds : AddNode(n, m)
    \/ \E n \in NodeIds : \E k \in Keys : PutStart(n, k)
    \/ \E i \in 1..MaxPuts : PutReturn(i)
    \/ \E n \in NodeIds : \E k \in Keys : GetStart(n, k)
    \/ \E i \in 1..MaxGets : GetReturn(i)

Spec == Init /\ [][Next]_vars

\* the cluster with processes that are killed
NextFailure ==
    \/ Next
    \/ \E n \in NodeIds : Kill(n)
    \/ \E l \in Links : \E i \in 1..MaxConns : OnDisconnect(l[1], l[2], i)

SpecFailure == InitFailure /\ [][NextFailure]_vars

-----------------------------------------------------------------------------
(* The cluster with connections that close while both ends run *)

\* runs in which time passes and no connection is lost, or in which
\* connections are lost while the start scripts run
CloseRuns ==
    {[ticks |-> MaxLinkTicks, puts |-> MaxLongPuts, gets |-> MaxGets,
      adds |-> 0, kills |-> 0, late |-> FALSE, sent |-> {},
      acks |-> {}, early |-> FALSE, closes |-> FALSE],
     [ticks |-> MaxStartTick, puts |-> MaxLongPuts, gets |-> 0,
      adds |-> MaxAddNode - 1, kills |-> MaxKills, late |-> FALSE, sent |-> {},
      acks |-> {}, early |-> FALSE, closes |-> TRUE]}

InitClose == NoProcess /\ run \in CloseRuns

\* the i-th connection from c to s is lost (transport close, ping timeout):
\* the server end will see 'disconnect'
Close(c, s, i) ==
    /\ run.closes
    /\ Up(c)
    /\ Up(s)
    /\ ClientInstant
    /\ i \in 1..Len(conns[<<c, s>>])
    /\ conns[<<c, s>>][i].connected
    /\ ~conns[<<c, s>>][i].disconnect
    /\ conns' = [conns EXCEPT ![<<c, s>>][i].disconnect = TRUE]
    /\ UNCHANGED <<now, replicationFactor, hashPos, status, ch, data, metadata, peers,
                   lastHeartbeat, nextBeat, added, join, puts, gets, declared,
                   killedAt, run, returned>>

\* the client socket of a lost connection connects again (socket.io-client
\* reconnects by default): its 'connect' listener, set by connectToPeer,
\* emits 'identify' on the new connection, which takes the place of the lost one
Reconnect(c, s, i) ==
    /\ Up(c)
    /\ Up(s)
    /\ i \in 1..Len(conns[<<c, s>>])
    /\ ~conns[<<c, s>>][i].connected
    /\ ~conns[<<c, s>>][i].disconnect
    /\ conns' = [conns EXCEPT ![<<c, s>>][i] = NewConn]
    /\ UNCHANGED <<now, replicationFactor, hashPos, status, ch, data, metadata, peers,
                   lastHeartbeat, nextBeat, added, join, puts, gets, declared,
                   killedAt, run, returned>>

NextClose ==
    \/ NextFailure
    \/ \E l \in Links : \E i \in 1..MaxConns : Close(l[1], l[2], i)
    \/ \E l \in Links : \E i \in 1..MaxConns : Reconnect(l[1], l[2], i)

SpecClose == InitClose /\ [][NextClose]_vars

-----------------------------------------------------------------------------
(* The cluster run to the end of its requests: the clock goes on while a
   request waits, and the event loops run what is due *)

\* short runs with a write, a read, a membership request and a killed process
LiveRuns ==
    {[ticks |-> MaxLiveTicks, puts |-> MaxLongPuts, gets |-> MaxGets,
      adds |-> MaxAddNode - 1, kills |-> MaxKills, late |-> FALSE, sent |-> {},
      acks |-> {}, early |-> FALSE, closes |-> FALSE]}

InitLive == NoProcess /\ run \in LiveRuns

\* a request waits at a running coordinator
Waiting ==
    \/ \E i \in 1..Len(puts) : ~puts[i].done /\ Up(puts[i].coord)
    \/ \E i \in 1..Len(gets) : ~gets[i].done /\ Up(gets[i].coord)

\* the wall clock advances past the last instant of the run, up to the
\* timeouts of the requests that wait
Drain ==
    /\ Quiet
    /\ now + TickMs > run.ticks * TickMs
    /\ Waiting
    /\ now' = now + TickMs
    /\ UNCHANGED <<replicationFactor, hashPos, status, ch, data, metadata, peers,
                   lastHeartbeat, nextBeat, conns, added, join, puts, gets, declared,
                   killedAt, run, returned>>

NextLive ==
    \/ NextFailure
    \/ Drain

\* time passes, and every event loop runs its timers, its handlers and the
\* continuations of its awaits
LiveFairness ==
    /\ WF_vars(Tick)
    /\ WF_vars(Drain)
    /\ WF_vars(\E l \in Links : \E i \in 1..MaxConns : OnIdentify(l[1], l[2], i))
    /\ WF_vars(\E l \in Links : \E i \in 1..MaxConns : OnDisconnect(l[1], l[2], i))
    /\ WF_vars(\E n \in NodeIds : HeartbeatTimer(n))
    /\ WF_vars(\E n \in NodeIds : JoinConnect(n))
    /\ WF_vars(\E n \in NodeIds : JoinFetchRing(n))
    /\ WF_vars(\E n \in NodeIds : JoinMerge(n))
    /\ WF_vars(\E i \in 1..MaxPuts : PutReturn(i))
    /\ WF_vars(\E i \in 1..MaxGets : GetReturn(i))

SpecLive == InitLive /\ [][NextLive]_vars /\ LiveFairness

-----------------------------------------------------------------------------
(* The cluster with peers that send on the connections they opened: the
   events a node listens for on the server end of a connection, sent by the
   process at the client end *)

\* runs with such peers: long ones with heartbeats, or with membership
\* requests at any time, and short ones with a write, a read and the messages
\* about them, with peers that answer what the node sends them, or with
\* peers that send before they identify themselves
LinkRuns ==
    {[ticks |-> MaxLongTicks, puts |-> 0, gets |-> 0, adds |-> 0,
      kills |-> 0, late |-> FALSE, sent |-> {"heartbeat"},
      acks |-> {}, early |-> FALSE, closes |-> FALSE],
     [ticks |-> MaxLongTicks, puts |-> 0, gets |-> 0, adds |-> MaxAddNode,
      kills |-> 0, late |-> TRUE, sent |-> {},
      acks |-> {}, early |-> FALSE, closes |-> FALSE],
     [ticks |-> MaxLinkTicks, puts |-> MaxLongPuts, gets |-> MaxGets, adds |-> 0,
      kills |-> 0, late |-> FALSE,
      sent |-> {"replicate_data", "read_request", "write_request"},
      acks |-> {}, early |-> FALSE, closes |-> FALSE],
     [ticks |-> MaxLinkTicks, puts |-> MaxLongPuts, gets |-> MaxGets,
      adds |-> MaxAddNode - 1, kills |-> 0, late |-> FALSE, sent |-> {},
      acks |-> {"replicate_data", "read_request"}, early |-> FALSE, closes |-> FALSE],
     [ticks |-> MaxStartTick, puts |-> MaxLongPuts, gets |-> 0,
      adds |-> MaxAddNode - 1, kills |-> 0, late |-> FALSE,
      sent |-> {"heartbeat", "replicate_data", "read_request", "write_request"},
      acks |-> {}, early |-> TRUE, closes |-> FALSE]}

InitLink == NoProcess /\ run \in LinkRuns

\* the process c can send event on its i-th connection to s, and s handles
\* it; the peers send at the instants at which the clients do
CanSend(c, s, i, event) ==
    /\ event \in run.sent
    /\ i \in 1..Len(conns[<<c, s>>])
    /\ conns[<<c, s>>][i].connected
    /\ Up(c)
    /\ Up(s)
    /\ \/ ClientInstant
       \/ run.early /\ conns[<<c, s>>][i].identify

\* socket.on('heartbeat') on the i-th connection from c to s
OnHeartbeat(c, s, i) ==
    /\ CanSend(c, s, i, "heartbeat")
    /\ LET p == conns[<<c, s>>][i].peerId
       IN  lastHeartbeat' = IF p # NoNode
                            THEN [lastHeartbeat EXCEPT ![s][p] = now]
                            ELSE lastHeartbeat
    /\ returned' = [op |-> "heartbeat", node |-> s, from |-> c, at |-> now,
                    peerId |-> conns[<<c, s>>][i].peerId, replied |-> FALSE]
    /\ UNCHANGED <<now, replicationFactor, hashPos, status, ch, data, metadata, peers,
                   nextBeat, conns, added, join, puts, gets, declared, killedAt,
                   run>>

\* the { key, value, metadata } a coordinator sends about its j-th PUT
WriteMessage(j) ==
    [key |-> puts[j].key, value |-> puts[j].value,
     metadata |-> [version |-> Version, timestamp |-> puts[j].timestamp,
                   nodeId |-> puts[j].coord]]

\* socket.on('replicate_data') on the i-th connection from c to s, for the
\* j-th PUT, which c coordinates: Node.handleReplication
OnReplicateData(c, s, i, j) ==
    /\ CanSend(c, s, i, "replicate_data")
    /\ j \in 1..Len(puts)
    /\ puts[j].coord = c
    /\ LET msg == WriteMessage(j)
           existingMetadata == metadata[s][msg.key]
       IN  IF \/ existingMetadata = NoMeta
              \/ msg.metadata.timestamp > existingMetadata.timestamp
           THEN StoreData(s, msg.key, msg.value, msg.metadata.version, now)
           ELSE UNCHANGED <<data, metadata>>
    /\ returned' = [op |-> "replicate_data", put |-> j, node |-> s, from |-> c, at |-> now,
                    peerId |-> conns[<<c, s>>][i].peerId, replied |-> FALSE]
    /\ UNCHANGED <<now, replicationFactor, hashPos, status, ch, peers, lastHeartbeat,
                   nextBeat, conns, added, join, puts, gets, declared, killedAt, run>>

\* socket.on('read_request') on the i-th connection from c to s:
\* Node.handleReadRequest, which answers with getData
OnReadRequest(c, s, i, key) ==
    /\ CanSend(c, s, i, "read_request")
    /\ returned' = [op |-> "read_request", node |-> s, from |-> c, at |-> now,
                    peerId |-> conns[<<c, s>>][i].peerId, replied |-> TRUE,
                    result |-> GetData(s, key)]
    /\ UNCHANGED <<now, replicationFactor, hashPos, status, ch, data, metadata, peers,
                   lastHeartbeat, nextBeat, conns, added, join, puts, gets, declared,
                   killedAt, run>>

\* socket.on('write_request') on the i-th connection from c to s, for the
\* j-th PUT, which c coordinates: Node.handleWriteRequest
OnWriteRequest(c, s, i, j) ==
    /\ CanSend(c, s, i, "write_request")
    /\ j \in 1..Len(puts)
    /\ puts[j].coord = c
    /\ LET msg == WriteMessage(j)
       IN  StoreData(s, msg.key, msg.value, msg.metadata.version, now)
    /\ returned' = [op |-> "write_request", put |-> j, node |-> s, from |-> c, at |-> now,
                    peerId |-> conns[<<c, s>>][i].peerId, replied |-> TRUE,
                    result |-> [success |-> TRUE, nodeId |-> s]]
    /\ UNCHANGED <<now, replicationFactor, hashPos, status, ch, peers, lastHeartbeat,
                   nextBeat, conns, added, join, puts, gets, declared, killedAt, run>>

\* the node_failure about f that c broadcast on the sockets of its peers
\* (Node.broadcastNodeFailure) arrives at r, on the client end of a connection
\* r opened to c.  A listener for it would drop f as handleNodeFailure does;
\* the event is lost when the socket has none.
OnNodeFailure(c, r, f) ==
    /\ Up(c)
    /\ Up(r)
    /\ f \in declared[c]
    /\ r \notin {c, f}
    /\ peers[c][r] # NoSocket \/ r \in declared[c]
    /\ \E i \in 1..Len(conns[<<r, c>>]) :
          conns[<<r, c>>][i].connected /\ conns[<<r, c>>][i].peerId = r
    /\ IF PeerHandles("node_failure")
       THEN /\ peers' = [peers EXCEPT ![r][f] = NoSocket]
            /\ lastHeartbeat' = [lastHeartbeat EXCEPT ![r][f] = NoBeat]
       ELSE UNCHANGED <<peers, lastHeartbeat>>
    /\ returned' = [op |-> "node_failure", node |-> r, from |-> c, failed |-> f]
    /\ UNCHANGED <<now, replicationFactor, hashPos, status, ch, data, metadata,
                   nextBeat, conns, added, join, puts, gets, declared, killedAt, run>>

NextLink ==
    \/ Next
    \/ \E c \in NodeIds : \E r \in NodeIds : \E f \in NodeIds : OnNodeFailure(c, r, f)
    \/ \E l \in Links : \E i \in 1..MaxConns : OnHeartbeat(l[1], l[2], i)
    \/ \E l \in Links : \E i \in 1..MaxConns : \E j \in 1..MaxPuts :
          OnReplicateData(l[1], l[2], i, j)
    \/ \E l \in Links : \E i \in 1..MaxConns : \E key \in Keys :
          OnReadRequest(l[1], l[2], i, key)
    \/ \E l \in Links : \E i \in 1..MaxConns : \E j \in 1..MaxPuts :
          OnWriteRequest(l[1], l[2], i, j)

SpecLink == InitLink /\ [][NextLink]_vars

-----------------------------------------------------------------------------
(* The ring taken alone: a ConsistentHashing object under every table of
   positions, two strings with the same position included *)

\* every table that sends the hashed strings to the first positions
HashTables ==
    [vnode : [NodeIds -> [0..(VirtualNodes - 1) -> 0..MaxPosition]],
     key : [Keys -> 0..MaxPosition]]

\* the node whose ConsistentHashing object is called
RingHolder == "node-1"

NoRun == [ticks |-> 0, puts |-> 0, gets |-> 0, adds |-> 0, kills |-> 0,
          late |-> FALSE, sent |-> {},
      acks |-> {}, early |-> FALSE, closes |-> FALSE]

\* new ConsistentHashing(replicationFactor, virtualNodes)
InitRing ==
    /\ NoCluster
    /\ replicationFactor \in 1..Cardinality(NodeIds)
    /\ hashPos \in HashTables
    /\ run = NoRun

\* the frame of a call on the ring
RingFrame ==
    UNCHANGED <<now, replicationFactor, hashPos, status, data, metadata, peers,
                lastHeartbeat, nextBeat, conns, added, join, puts, gets,
                declared, killedAt, run>>

CallAddNode(nodeId) ==
    /\ ch' = [ch EXCEPT ![RingHolder] = addNode(@, nodeId)]
    /\ returned' = [op |-> "addNode", nodeId |-> nodeId,
                    before |-> ch[RingHolder]]
    /\ RingFrame

CallRemoveNode(nodeId) ==
    /\ ch' = [ch EXCEPT ![RingHolder] = removeNode(@, nodeId)]
    /\ returned' = [op |-> "removeNode", nodeId |-> nodeId,
                    result |-> nodeId \in Range(ch[RingHolder].nodes)]
    /\ RingFrame

CallGetNode(key) ==
    /\ returned' = [op |-> "getNode", key |-> key,
                    result |-> getNode(ch[RingHolder], key)]
    /\ UNCHANGED ch
    /\ RingFrame

CallGetReplicaNodes(key) ==
    /\ returned' = [op |-> "getReplicaNodes", key |-> key,
                    result |-> getReplicaNodes(ch[RingHolder], replicationFactor, key)]
    /\ UNCHANGED ch
    /\ RingFrame

NextRing ==
    \/ \E nodeId \in NodeIds : CallAddNode(nodeId)
    \/ \E nodeId \in NodeIds : CallRemoveNode(nodeId)
    \/ \E key \in Keys : CallGetNode(key)
    \/ \E key \in Keys : CallGetReplicaNodes(key)

SpecRing == InitRing /\ [][NextRing]_vars

-----------------------------------------------------------------------------
(* The read path taken alone: the end of Cluster.get, the await of Promise.all
   to the return, for two GETs of the same key at two coordinators whose target
   replicas all answered, under every content of the replicas' stores *)

\* a ring that holds the three nodes (after POST /cluster/nodes requests)
FullRing == addNode(addNode(addNode(EmptyRing, "node-1"), "node-2"), "node-3")

\* what the stores of the replicas can hold for a key: nothing, or a value
\* stamped by storeData with the time of the store and the id of the node
StoredRecords(n) ==
    {[value |-> NoValue, metadata |-> NoMeta]} \cup
    {[value |-> v, metadata |-> [version |-> Version, timestamp |-> t * TickMs,
                                 nodeId |-> n]] :
        v \in 1..MaxPuts, t \in 0..MaxStampTick}

\* the records of readResults when every peer answered its read_request: the
\* local record first, then the answers in the order of replicaNodes
Collected(n, replicaNodes, key) ==
    LET holds(t) == data[t][key] # NoValue
        result(t) == [nodeId |-> t, success |-> TRUE, error |-> "none",
                      data |-> GetData(t, key), wait |-> FALSE]
        local == IF n \in Range(replicaNodes) /\ holds(n) THEN <<result(n)>> ELSE <<>>
        others == SelectSeq(replicaNodes, LAMBDA t : t # n /\ holds(t))
    IN  local \o [i \in 1..Len(others) |-> result(others[i])]

\* a GET at the await of Promise.all, every answer received
Awaiting(n, key) ==
    LET replicaNodes == getReplicaNodes(ch[n], replicationFactor, key)
    IN  [coord |-> n, key |-> key, replicaNodes |-> replicaNodes,
         readResults |-> Collected(n, replicaNodes, key), errors |-> <<>>,
         deadline |-> now, done |-> FALSE, found |-> FALSE, value |-> NoValue,
         metadata |-> NoMeta, count |-> 0, quorumAchieved |-> FALSE,
         linked |-> TRUE, after |-> {}, open |-> {}]

InitRead ==
    /\ now = MaxStampTick * TickMs
    /\ replicationFactor \in ReplicationFactors
    /\ hashPos = ClusterHash
    /\ run = NoRun
    /\ returned = NoCall
    /\ status = [n \in NodeIds |-> "up"]
    /\ ch = [n \in NodeIds |-> FullRing]
    /\ \E stored \in [NodeIds -> UNION {StoredRecords(n) : n \in NodeIds}] :
          /\ \A n \in NodeIds : stored[n] \in StoredRecords(n)
          /\ data = [n \in NodeIds |-> [k \in Keys |-> stored[n].value]]
          /\ metadata = [n \in NodeIds |-> [k \in Keys |-> stored[n].metadata]]
    /\ peers = [n \in NodeIds |-> [m \in NodeIds |-> NoSocket]]
    /\ lastHeartbeat = [n \in NodeIds |-> [m \in NodeIds |-> NoBeat]]
    /\ nextBeat = [n \in NodeIds |-> now + HeartbeatInterval]
    /\ conns = [l \in Links |-> <<>>]
    /\ added = 0
    /\ join = [n \in NodeIds |-> [NoJoin EXCEPT !.pc = "done"]]
    /\ puts = <<>>
    /\ declared = [n \in NodeIds |-> {}]
    /\ killedAt = [n \in NodeIds |-> [at |-> -1, created |-> {}]]
    /\ \E key \in Keys : \E n \in NodeIds : \E m \in NodeIds \ {n} :
          gets = <<Awaiting(n, key), Awaiting(m, key)>>

NextRead == \E i \in 1..2 : GetReturn(i)

SpecRead == InitRead /\ [][NextRead]_vars

-----------------------------------------------------------------------------
(* Properties of PUT and GET *)

\* the replicas of a PUT whose write was acknowledged, the local apply included
Acknowledged(p) ==
    {r \in Range(p.replicaNodes) :
        \E j \in 1..Len(p.writeResults) :
            p.writeResults[j].nodeId = r /\ p.writeResults[j].success}

\* the replica list is as long as the replication factor asks, and every node
\* of it other than the coordinator was running and linked when the request
\* started
FullAndLinked(op) ==
    /\ Len(op.replicaNodes) = replicationFactor
    /\ op.linked

AllRunning == \A n \in NodeIds : Up(n)

\* C2: a PUT answers success: true exactly when successfulWrites >= Q, where
\* successfulWrites is the number of listed replicas that acknowledged the
\* write, the coordinator's local apply included, and Q = floor(R / 2) + 1
C2_PutSuccessIffQuorum ==
    \A i \in 1..Len(puts) :
        puts[i].done =>
            /\ puts[i].successfulWrites = Cardinality(Acknowledged(puts[i]))
            /\ puts[i].quorumSize = (replicationFactor \div 2) + 1
            /\ puts[i].success <=>
                   (puts[i].successfulWrites >= (replicationFactor \div 2) + 1)

\* a PUT answered success: true with its quorum of acknowledgements
C2_Witness ==
    \E i \in 1..Len(puts) :
        /\ puts[i].done
        /\ puts[i].success
        /\ puts[i].successfulWrites >= puts[i].quorumSize
        /\ puts[i].successfulWrites >= 1

\* C1: quorum read-after-write: once a PUT of a key has answered success: true
\* with timestamp t, every GET of the key that starts later, on any
\* coordinator, and collects at least Q records returns a record whose
\* metadata.timestamp is >= t
C1_QuorumReadAfterWrite ==
    \A g \in 1..Len(gets) : \A p \in gets[g].after :
        ( /\ gets[g].done
          /\ puts[p].key = gets[g].key
          /\ puts[p].success
          /\ gets[g].found
          /\ gets[g].count >= (replicationFactor \div 2) + 1 )
        => gets[g].metadata.timestamp >= puts[p].timestamp

\* C3: round trip: a PUT of v and then a GET of the key on the same
\* coordinator, every node of the (unchanged) replica set running and linked,
\* returns v with quorumAchieved true
C3_RoundTrip ==
    \A g \in 1..Len(gets) :
        ( /\ gets[g].done
          /\ Len(puts) = 1
          /\ gets[g].after = {1}
          /\ puts[1].key = gets[g].key
          /\ puts[1].coord = gets[g].coord
          /\ puts[1].replicaNodes = gets[g].replicaNodes
          /\ FullAndLinked(puts[1])
          /\ FullAndLinked(gets[g]) )
        => /\ gets[g].found
           /\ gets[g].value = puts[1].value
           /\ gets[g].quorumAchieved

\* C4: when every node of the replica set is running and linked to the
\* coordinator, every target acknowledges a PUT: successfulWrites is the
\* number of replicas listed and quorumAchieved is true
C4_AllReplicasAcknowledge ==
    \A i \in 1..Len(puts) :
        ( /\ puts[i].done
          /\ FullAndLinked(puts[i]) )
        => /\ puts[i].successfulWrites = Len(puts[i].replicaNodes)
           /\ puts[i].success

\* the nodes whose store holds, for the key of PUT p, a record stamped with
\* the timestamp the coordinator formed for p
HoldersOf(p) ==
    {r \in NodeIds : /\ data[r][p.key] # NoValue
                     /\ metadata[r][p.key].timestamp = p.timestamp}

\* C5: if a PUT answered success: true with successfulWrites = S >= Q, at
\* least S replicas hold a record of the key whose stored timestamp is the
\* timestamp the coordinator formed for that PUT, until a newer write of the
\* key supersedes it
C5_AcknowledgedReplicasHoldPut ==
    \A i \in 1..Len(puts) :
        ( /\ puts[i].done
          /\ puts[i].success
          /\ puts[i].successfulWrites >= (replicationFactor \div 2) + 1
          /\ \A j \in 1..Len(puts) : j # i => puts[j].key # puts[i].key )
        => Cardinality(HoldersOf(puts[i]) \cap Range(puts[i].replicaNodes))
              >= puts[i].successfulWrites

\* C6: writes of one key through one coordinator are seen in submission
\* order: after PUT v1 and then PUT v2, a GET of the key answers v2 on every
\* replica
C6_SubmissionOrder ==
    \A g \in 1..Len(gets) :
        ( /\ gets[g].done
          /\ Len(puts) = 2
          /\ gets[g].after = {1, 2}
          /\ puts[1].key = gets[g].key /\ puts[2].key = gets[g].key
          /\ puts[1].coord = puts[2].coord
          /\ puts[1].replicaNodes = puts[2].replicaNodes
          /\ gets[g].coord \in Range(puts[2].replicaNodes)
          /\ \A r \in Range(puts[2].replicaNodes) : Up(r) )
        => /\ gets[g].found
           /\ gets[g].value = puts[2].value

\* C7: last writer wins across coordinators: all replicas running, A PUTs v1
\* with timestamp t1 and B PUTs v2 with timestamp t2 > t1; once both PUTs
\* have answered, a GET of the key from any node returns v2
C7_LastWriterWins ==
    \A g \in 1..Len(gets) : \A a \in 1..Len(puts) : \A b \in 1..Len(puts) :
        ( /\ gets[g].done
          /\ Len(puts) = 2
          /\ gets[g].after = {a, b}
          /\ puts[a].coord # puts[b].coord
          /\ puts[a].key = gets[g].key /\ puts[b].key = gets[g].key
          /\ puts[b].timestamp > puts[a].timestamp
          /\ puts[a].created = NodeIds /\ puts[b].created = NodeIds
          /\ AllRunning )
        => /\ gets[g].found
           /\ gets[g].value = puts[b].value

\* C8: a write applied to a node's local store replaces the stored record
\* only if the key has no record or the incoming metadata.timestamp (the one
\* the coordinator formed) is strictly greater than the stored one; otherwise
\* the store is unchanged
C8_StoreKeepsNewest ==
    [][\A n \in NodeIds : \A k \in Keys :
          ( /\ Up(n) /\ status'[n] = "up"
            /\ <<data'[n][k], metadata'[n][k]>> # <<data[n][k], metadata[n][k]>> )
          => \/ data[n][k] = NoValue
             \/ /\ Len(puts') = Len(puts) + 1
                /\ puts'[Len(puts')].timestamp > metadata[n][k].timestamp]_vars

-----------------------------------------------------------------------------
(* Properties of the failure detector *)

\* C9: after the failure detector of a node declares peer f failed, f is
\* removed from the ring of that node, and no later PUT the node coordinates
\* lists f among its replicas (until f identifies itself again)
C9_FailedPeerLeavesRing ==
    /\ \A n \in NodeIds : \A f \in declared[n] :
           Up(n) => f \notin Range(ch[n].nodes)
    /\ \A i \in 1..Len(puts) :
           puts[i].declared \cap Range(puts[i].replicaNodes) = {}

\* C10: with R = 3 and three nodes started, once one of them has been killed
\* for more than the failure threshold, a PUT coordinated by a surviving node lists 2
\* replicas, gets successfulWrites = 2 and quorumAchieved true, and a GET
\* that follows returns the value
C10_MinorityDown ==
    /\ \A i \in 1..Len(puts) :
           ( /\ puts[i].done
             /\ replicationFactor = 3
             /\ Cardinality(puts[i].deadLong) = 1
             /\ \A m \in puts[i].deadLong : killedAt[m].created = NodeIds
             /\ \A m \in NodeIds \ puts[i].deadLong : Up(m) )
           => /\ Len(puts[i].replicaNodes) = 2
              /\ puts[i].successfulWrites = 2
              /\ puts[i].success
    /\ \A g \in 1..Len(gets) : \A i \in gets[g].after :
           ( /\ gets[g].done
             /\ replicationFactor = 3
             /\ puts[i].key = gets[g].key
             /\ Cardinality(puts[i].deadLong) = 1
             /\ \A m \in puts[i].deadLong : killedAt[m].created = NodeIds
             /\ \A m \in NodeIds \ puts[i].deadLong : Up(m) )
           => /\ gets[g].found
              /\ gets[g].value = puts[i].value

-----------------------------------------------------------------------------
(* Properties of the quorum, the membership and the read path *)

\* C11: Q is fixed by R and not scaled to the cluster: when the ring of the
\* coordinator holds N < Q nodes, a PUT lists N replicas, reports
\* successfulWrites <= N and answers success: false
C11_QuorumNotScaled ==
    \A i \in 1..Len(puts) :
        ( /\ puts[i].done
          /\ Cardinality(puts[i].nodes) < (replicationFactor \div 2) + 1 )
        => /\ Len(puts[i].replicaNodes) = Cardinality(puts[i].nodes)
           /\ puts[i].successfulWrites <= Cardinality(puts[i].nodes)
           /\ puts[i].quorumSize = (replicationFactor \div 2) + 1
           /\ ~puts[i].success

\* a single node with R = 3 answered a PUT: 1 replica, 1 write, no quorum
C11_Witness ==
    \E i \in 1..Len(puts) :
        /\ puts[i].done
        /\ replicationFactor = 3
        /\ puts[i].nodes = {puts[i].coord}
        /\ puts[i].successfulWrites = 1
        /\ ~puts[i].success

\* every start script has run to its end and nothing is in flight
AllJoined ==
    /\ \A n \in NodeIds : Up(n) /\ join[n].pc = "done"
    /\ ~Delivering

\* C12: membership converges after the joins: once node-1 has started, node-2
\* has joined through node-1 and node-3 through node-1 and node-2, the ring
\* of each of the three nodes holds the three node ids, and a PUT coordinated
\* by any of them lists 3 distinct replicas
C12_MembershipConverges ==
    /\ AllJoined => \A n \in NodeIds : Range(ch[n].nodes) = NodeIds
    /\ \A i \in 1..Len(puts) :
           ( /\ AllJoined
             /\ replicationFactor = 3
             /\ puts[i].created = NodeIds )
           => Cardinality(Range(puts[i].replicaNodes)) = 3

\* C15: GET answers not found exactly when no targeted replica supplied a
\* record; otherwise it returns a value, even with fewer than Q records, with
\* readResults the number of records collected and quorumAchieved telling
\* whether that number is >= Q
C15_GetFoundIffCollected ==
    \A g \in 1..Len(gets) :
        gets[g].done =>
            /\ gets[g].found <=> (Len(gets[g].readResults) >= 1)
            /\ gets[g].found =>
                  /\ gets[g].value # NoValue
                  /\ gets[g].count = Len(gets[g].readResults)
                  /\ gets[g].quorumAchieved <=>
                         (gets[g].count >= (replicationFactor \div 2) + 1)

\* a GET returned a value from fewer than Q records
C15_Witness ==
    \E g \in 1..Len(gets) :
        /\ gets[g].done
        /\ gets[g].found
        /\ gets[g].count = 1
        /\ replicationFactor = 3
        /\ ~gets[g].quorumAchieved

-----------------------------------------------------------------------------
(* Properties of the ring *)

\* the smaller of two numbers
Min(a, b) == IF a <= b THEN a ELSE b

\* C14: for every key and every ring reached by addNode and removeNode that
\* holds N >= 1 nodes, getReplicaNodes returns exactly min(R, N) node ids, no
\* two of them the same
C14_ReplicasMinRN ==
    ( /\ returned.op = "getReplicaNodes"
      /\ Len(ch[RingHolder].nodes) >= 1 )
    => /\ returned.result # Diverges
       /\ Len(returned.result) = Min(replicationFactor, Len(ch[RingHolder].nodes))
       /\ Cardinality(Range(returned.result)) = Len(returned.result)
       /\ Range(returned.result) \subseteq Range(ch[RingHolder].nodes)

-----------------------------------------------------------------------------
(* Properties of the conflict resolution of GET *)

\* the data of the records a GET collected
CollectedData(g) == {g.readResults[i].data : i \in 1..Len(g.readResults)}

\* C16: GET returns the value and the metadata of the record with the largest
\* metadata.timestamp among the records it collected from the local store and
\* from the peers
C16_GetReturnsLatest ==
    \A g \in 1..Len(gets) :
        (gets[g].done /\ gets[g].found) =>
            /\ [value |-> gets[g].value, metadata |-> gets[g].metadata]
                  \in CollectedData(gets[g])
            /\ \A d \in CollectedData(gets[g]) :
                  d.metadata.timestamp <= gets[g].metadata.timestamp

\* a GET returned a record that was not the first of several it collected,
\* the local one included
C16_Witness ==
    \E g \in 1..Len(gets) :
        /\ gets[g].done
        /\ gets[g].found
        /\ Len(gets[g].readResults) = 3
        /\ gets[g].readResults[1].nodeId = gets[g].coord
        /\ gets[g].metadata.timestamp > gets[g].readResults[1].data.metadata.timestamp

\* C17: when several collected records share the largest timestamp, GET picks
\* among them by the order of their origin node ids, so two coordinators that
\* collected the same set of records return the same value
C17_TieBrokenByOrigin ==
    \A g \in 1..Len(gets) : \A h \in 1..Len(gets) :
        ( /\ gets[g].done /\ gets[g].found
          /\ gets[h].done /\ gets[h].found
          /\ CollectedData(gets[g]) = CollectedData(gets[h]) )
        => gets[g].value = gets[h].value

-----------------------------------------------------------------------------
(* Properties of the peer links *)

\* C13: rejoin: when a peer that was declared failed connects again and sends
\* identify, the node that receives it adds the peer back to its ring, and the
\* PUTs it coordinates afterwards list the peer among their replicas again
C13_RejoinRestoresRing ==
    [][\A s \in NodeIds : \A f \in NodeIds :
          ( /\ Up(s)
            /\ f \in declared[s]
            /\ peers[s][f] = NoSocket
            /\ peers'[s][f] # NoSocket )
          => /\ f \in Range(ch'[s].nodes)
             /\ replicationFactor = Cardinality(NodeIds) =>
                   \A k \in Keys :
                       f \in Range(getReplicaNodes(ch'[s], replicationFactor, k))]_vars

\* C18: the nodeId in the metadata of a stored record, and so the one GET
\* returns, is the id of the coordinator that accepted the write, on every
\* replica that holds the record
C18_OriginIsCoordinator ==
    /\ \A r \in NodeIds : \A j \in 1..Len(puts) :
          (Up(r) /\ data[r][puts[j].key] = puts[j].value)
          => metadata[r][puts[j].key].nodeId = puts[j].coord
    /\ \A g \in 1..Len(gets) : \A j \in 1..Len(puts) :
          ( /\ gets[g].done /\ gets[g].found
            /\ gets[g].key = puts[j].key /\ gets[g].value = puts[j].value )
          => gets[g].metadata.nodeId = puts[j].coord

\* C19: at each run of the failure detector of a node, the peers declared
\* failed are exactly those whose last heartbeat is older than the threshold:
\* a peer heard from within it is kept, a peer silent for longer is declared
C19_DeclaredIffSilent ==
    [][\A n \in NodeIds :
          (Up(n) /\ nextBeat[n] <= now /\ nextBeat'[n] > now) =>
              \A p \in NodeIds :
                  lastHeartbeat[n][p] # NoBeat =>
                      IF now - lastHeartbeat[n][p] > 10000
                      THEN /\ p \in declared'[n]
                           /\ lastHeartbeat'[n][p] = NoBeat
                           /\ peers'[n][p] = NoSocket
                      ELSE /\ p \in declared'[n] <=> p \in declared[n]
                           /\ lastHeartbeat'[n][p] = lastHeartbeat[n][p]
                           /\ peers'[n][p] = peers[n][p]]_vars

\* the detector of a node has just declared one peer and kept another, which
\* identified itself as early but sent a heartbeat since
C19_Witness ==
    \E n \in NodeIds : \E p \in NodeIds : \E q \in NodeIds \ {p} :
        /\ Up(n)
        /\ nextBeat[n] = now + HeartbeatInterval
        /\ p \in declared[n]
        /\ lastHeartbeat[n][p] = NoBeat
        /\ q \notin declared[n]
        /\ peers[n][q] # NoSocket
        /\ lastHeartbeat[n][q] > 0
        /\ now - lastHeartbeat[n][q] <= FailureThreshold
        /\ now > FailureThreshold

\* C20: failure is sticky: once a node has declared a peer failed, nothing but
\* a fresh identify from that peer, and in particular no late heartbeat on the
\* old link, brings the peer back into the ring or the live peers of the node
C20_FailureSticky ==
    [][\A s \in NodeIds : \A f \in NodeIds :
          (Up(s) /\ f \in declared[s] /\ f \in declared'[s]) =>
              /\ peers'[s][f] = NoSocket
              /\ lastHeartbeat'[s][f] = NoBeat
              /\ f \in Range(ch'[s].nodes) =>
                    (f \in Range(ch[s].nodes) \/ added' # added)]_vars

-----------------------------------------------------------------------------
(* Properties of addNode and removeNode *)

\* C23: addNode(x) followed by removeNode(x), for a node x the ring did not
\* hold, leaves the ring map, the sorted positions and the node table as they
\* were before the two calls
C23_AddThenRemoveRestores ==
    [][( /\ returned.op = "addNode"
         /\ returned.nodeId \notin Range(returned.before.nodes)
         /\ returned'.op = "removeNode"
         /\ returned'.nodeId = returned.nodeId )
       => ch'[RingHolder] = returned.before]_vars

\* C24: addNode is idempotent: called for an id the ring holds, it leaves
\* the ring entries and the sorted positions unchanged; removeNode of an id
\* the ring does not hold changes nothing
C24_AddNodeIdempotent ==
    [][/\ ( /\ returned'.op = "addNode"
            /\ returned' # returned
            /\ returned'.nodeId \in Range(ch[RingHolder].nodes) )
          => /\ ch'[RingHolder].ring = ch[RingHolder].ring
             /\ ch'[RingHolder].sortedHashes = ch[RingHolder].sortedHashes
       /\ ( /\ returned'.op = "removeNode"
            /\ returned' # returned
            /\ returned'.nodeId \notin Range(ch[RingHolder].nodes) )
          => ch'[RingHolder] = ch[RingHolder]]_vars

\* the distance from the position of a key to a position, clockwise
Clockwise(key, p) ==
    IF p >= KeyPosition(key) THEN p - KeyPosition(key)
    ELSE p - KeyPosition(key) + Cardinality(Positions)

\* the distance from the position of a key to the nearest entry of a node
NodeDistance(c, key, n) ==
    LET owned == {Clockwise(key, p) : p \in {q \in Positions : c.ring[q] = n}}
    IN  CHOOSE d \in owned : \A e \in owned : d <= e

\* C25: the first element of the replicas of a key is its primary, the owner
\* of the smallest position >= the position of the key, or of the first
\* position when there is none; the other elements follow clockwise
C25_PrimaryFirstThenClockwise ==
    ( /\ returned.op = "getReplicaNodes"
      /\ returned.result # Diverges
      /\ returned.result # <<>> )
    => LET c == ch[RingHolder]
           key == returned.key
           result == returned.result
           hits == {p \in RingKeys(c.ring) : p >= KeyPosition(key)}
           least(S) == CHOOSE p \in S : \A q \in S : p <= q
       IN  /\ result[1] = getNode(c, key)
           /\ result[1] = IF hits # {} THEN c.ring[least(hits)]
                           ELSE c.ring[least(RingKeys(c.ring))]
           /\ \A i \in 1..Len(result) : \A j \in 1..Len(result) :
                 i < j => NodeDistance(c, key, result[i]) < NodeDistance(c, key, result[j])
           /\ \A n \in NodeIds \ Range(result) :
                 (\E p \in Positions : c.ring[p] = n) =>
                     \A i \in 1..Len(result) :
                         NodeDistance(c, key, result[i]) < NodeDistance(c, key, n)

\* the replicas of a key whose position is behind every entry of the ring:
\* the walk wrapped to the first position and went on to a second node
C25_Witness ==
    /\ returned.op = "getReplicaNodes"
    /\ returned.result # Diverges
    /\ Len(returned.result) >= 2
    /\ \A p \in RingKeys(ch[RingHolder].ring) : p < KeyPosition(returned.key)

\* C26: in every ring reached by addNode and removeNode, every node id that
\* owns a ring entry has a descriptor in the node table
C26_RingOwnersInTable ==
    \A p \in Positions :
        ch[RingHolder].ring[p] # NoNode =>
            ch[RingHolder].ring[p] \in Range(ch[RingHolder].nodes)

\* a node was removed from a ring in which another node keeps entries
C26_Witness ==
    /\ returned.op = "removeNode"
    /\ returned.result
    /\ returned.nodeId \notin Range(ch[RingHolder].nodes)
    /\ RingKeys(ch[RingHolder].ring) # {}

\* C27: when a position of the node being added is already owned by another
\* node, the node already at that position keeps it
C27_CollisionKeepsOwner ==
    [][( /\ returned'.op = "addNode"
         /\ returned' # returned )
       => \A p \in Positions :
              ch[RingHolder].ring[p] # NoNode =>
                  ch'[RingHolder].ring[p] = ch[RingHolder].ring[p]]_vars

-----------------------------------------------------------------------------
(* Properties of the fan-out and of the messages on a link *)

\* C22: the results of a PUT hold exactly one outcome for every replica other
\* than the coordinator, each of them success, timeout or not_connected; a
\* replica that is in the ring without an entry in peers is reported as
\* not_connected, not left out
C22_OneOutcomePerTarget ==
    \A i \in 1..Len(puts) :
        \A r \in Range(puts[i].replicaNodes) \ {puts[i].coord} :
            LET outcomes == {j \in 1..Len(puts[i].writeResults) :
                                puts[i].writeResults[j].nodeId = r}
            IN  /\ Cardinality(outcomes) = 1
                /\ \A j \in outcomes :
                      \/ puts[i].writeResults[j].success
                      \/ puts[i].writeResults[j].error \in {"timeout", "not_connected"}

\* C21: a node_failure about f is advisory: receiving it never removes f from
\* the ring or the peers of the receiver; f leaves the peers of a node only
\* when the detector of that node has timed f out
C21_NodeFailureAdvisory ==
    [][/\ ( /\ returned'.op = "node_failure"
            /\ returned' # returned )
          => /\ ch'[returned'.node] = ch[returned'.node]
             /\ peers'[returned'.node] = peers[returned'.node]
       /\ \A r \in NodeIds : \A f \in NodeIds :
            (Up(r) /\ status'[r] = "up") =>
                /\ f \in Range(ch[r].nodes) => f \in Range(ch'[r].nodes)
                /\ (peers[r][f] # NoSocket /\ peers'[r][f] = NoSocket) =>
                      /\ lastHeartbeat[r][f] # NoBeat
                      /\ now - lastHeartbeat[r][f] > 10000]_vars

\* a node received a node_failure about a peer that it holds in its ring and
\* in its peers, and holds it still
C21_Witness ==
    /\ returned.op = "node_failure"
    /\ peers[returned.node][returned.failed] # NoSocket
    /\ returned.failed \in Range(ch[returned.node].nodes)
    /\ returned.failed \in declared[returned.from]

\* the events a peer sends on a connection it opened
LinkMessages == {"heartbeat", "replicate_data", "read_request", "write_request"}

\* this step is the arrival of such an event
Arrives == returned' # returned /\ returned'.op \in LinkMessages

\* this step leaves the stores and the heartbeat table of node s as they are
Ignored(s) ==
    /\ data'[s] = data[s]
    /\ metadata'[s] = metadata[s]
    /\ lastHeartbeat'[s] = lastHeartbeat[s]
    /\ ~returned'.replied

\* C28: the last heartbeat of a peer is refreshed by every message from it
\* that shows it alive: every heartbeat, every identify, and every reply to a
\* request (the acknowledgement of replicate_data, the answer to read_request)
C28_EveryMessageRefreshes ==
    [][/\ (Arrives /\ returned'.op = "heartbeat" /\ returned'.peerId # NoNode)
          => lastHeartbeat'[returned'.node][returned'.peerId] = now'
       /\ \A s \in NodeIds : \A p \in NodeIds :
             (Up(s) /\ peers'[s][p] # peers[s][p] /\ peers'[s][p] # NoSocket)
             => lastHeartbeat'[s][p] = now'
       /\ Len(puts') > Len(puts) =>
             LET op == puts'[Len(puts')]
             IN  \A j \in 1..Len(op.writeResults) :
                     (op.writeResults[j].success /\ op.writeResults[j].nodeId # op.coord)
                     => lastHeartbeat'[op.coord][op.writeResults[j].nodeId] >= now
       /\ Len(gets') > Len(gets) =>
             LET op == gets'[Len(gets')]
             IN  \A j \in 1..Len(op.readResults) :
                     (op.readResults[j].success /\ op.readResults[j].nodeId # op.coord)
                     => lastHeartbeat'[op.coord][op.readResults[j].nodeId] >= now]_vars

\* C29: declaring a peer failed closes the link to it: what the peer sends on
\* the old link afterwards (heartbeat, replicate_data, read_request,
\* write_request) is not processed until the peer identifies itself again
C29_DeclarationClosesLink ==
    [][( /\ Arrives
         /\ returned'.from \in declared[returned'.node] )
       => Ignored(returned'.node)]_vars

\* C30: on a new link, every message other than identify that arrives before
\* the peer has identified itself is ignored: it changes no state of the node
\* and gets no reply
C30_IgnoredBeforeIdentify ==
    [][( /\ Arrives
         /\ returned'.peerId = NoNode )
       => Ignored(returned'.node)]_vars


-----------------------------------------------------------------------------
(* Properties of a request that times out, and of the end of a request *)

\* the outcomes of a fan-out that are timeouts
TimedOut(results) == {j \in 1..Len(results) : results[j].error = "timeout"}

\* C31: a timeout of replicate_data or read_request is a failed outcome of its
\* target and of no other: the steps of a PUT or GET that has one leave peers,
\* lastHeartbeat and the ring as they were, and the tally of the PUT counts
\* every outcome that is not a timeout
C31_TimeoutFailsTargetOnly ==
    [][/\ \A i \in 1..Len(puts') :
             (/\ i > Len(puts) \/ puts'[i] # puts[i]
              /\ TimedOut(puts'[i].writeResults) # {})
             => /\ peers' = peers /\ lastHeartbeat' = lastHeartbeat /\ ch' = ch
                /\ \A j \in TimedOut(puts'[i].writeResults) :
                      ~puts'[i].writeResults[j].success
                /\ puts'[i].done =>
                      puts'[i].successfulWrites =
                         Len(puts'[i].writeResults) -
                            Cardinality(TimedOut(puts'[i].writeResults))
       /\ \A i \in 1..Len(gets') :
             (/\ i > Len(gets) \/ gets'[i] # gets[i]
              /\ TimedOut(gets'[i].errors) # {})
             => /\ peers' = peers /\ lastHeartbeat' = lastHeartbeat /\ ch' = ch
                /\ \A r \in Range(gets'[i].readResults) :
                      \A j \in TimedOut(gets'[i].errors) :
                          r.nodeId # gets'[i].errors[j].nodeId]_vars

\* a PUT returned with its local write counted and a target timed out, and
\* the coordinator still holds the link to that target
C31_Witness ==
    \E i \in 1..Len(puts) :
        /\ puts[i].done
        /\ puts[i].successfulWrites >= 1
        /\ \E j \in TimedOut(puts[i].writeResults) :
              LET t == puts[i].writeResults[j].nodeId
              IN  /\ peers[puts[i].coord][t] # NoSocket
                  /\ lastHeartbeat[puts[i].coord][t] # NoBeat

\* C32: a PUT that answered success: false is not rolled back: the
\* coordinator, when it is a replica, stores the write as the PUT starts, the
\* step that answers leaves every store as it was, and from then on every
\* node that holds the write holds it until the write of another PUT
\* replaces it
C32_NoRollback ==
    [][\A i \in 1..Len(puts') :
          LET p == puts'[i]
          IN  /\ (i > Len(puts) /\ p.coord \in Range(p.replicaNodes))
                    => data'[p.coord][p.key] = p.value
              /\ (p.done /\ ~p.success) =>
                 /\ ~puts[i].done => (data' = data /\ metadata' = metadata)
                 /\ \A n \in NodeIds :
                       data[n][p.key] = p.value =>
                          \/ data'[n][p.key] = p.value
                          \/ \E j \in 1..Len(puts') :
                                /\ j # i
                                /\ puts'[j].key = p.key
                                /\ data'[n][p.key] = puts'[j].value]_vars

\* a PUT answered success: false, and its write is in the store of the
\* coordinator and in the store of a replica that took it from replicate_data
C32_Witness ==
    \E i \in 1..Len(puts) :
        /\ puts[i].done /\ ~puts[i].success
        /\ data[puts[i].coord][puts[i].key] = puts[i].value
        /\ \E n \in NodeIds \ {puts[i].coord} :
              /\ data[n][puts[i].key] = puts[i].value
              /\ metadata[n][puts[i].key].nodeId = n

-----------------------------------------------------------------------------
(* Further properties of the ring *)

\* C36: getReplicaNodes returns in every state of the ring that addNode and
\* removeNode can reach, those in which a node of the node table owns no ring
\* entry included
C36_ReplicasTerminate ==
    returned.op = "getReplicaNodes" => returned.result # Diverges

\* C39: removeNode(x) changes the state of x alone: every ring entry another
\* node owns stays, and so does every other node of the node table, also when
\* a virtual node of x has the position of an entry another node owns
C39_RemoveNodeFrame ==
    [][( /\ returned'.op = "removeNode"
         /\ returned' # returned )
       => LET x == returned'.nodeId
          IN  /\ \A p \in Positions :
                    ch[RingHolder].ring[p] \notin {NoNode, x} =>
                        ch'[RingHolder].ring[p] = ch[RingHolder].ring[p]
              /\ SelectSeq(ch'[RingHolder].nodes, LAMBDA n : n # x) =
                    SelectSeq(ch[RingHolder].nodes, LAMBDA n : n # x)]_vars

-----------------------------------------------------------------------------
(* Properties of the peer links *)

\* C34: after the join of a node has succeeded, the node holds a link to the
\* seed and to every other node of the ring it merged, so that its fan-out
\* finds a link to each of them
C34_JoinLinksPeers ==
    \A n \in NodeIds :
        ( /\ Up(n)
          /\ join[n].pc = "done"
          /\ SeedNodes(n) # <<>>
          /\ ~Delivering )
        => \A m \in Range(ch[n].nodes) \ {n} :
              (Up(m) /\ m \notin declared[n]) => HasPeer(n, m)

\* the step handles the 'disconnect' of the i-th connection of link l
DisconnectHandled(l, i) ==
    /\ i \in 1..Len(conns[l])
    /\ conns[l][i].disconnect
    /\ ~conns'[l][i].disconnect
    /\ Up(l[2])
    /\ status'[l[2]] = "up"

\* C35: the disconnect of the link to a peer moves the peer to FAILED at the
\* local node: its entries in peers and lastHeartbeat are deleted and the
\* cluster status lists it as failed
C35_DisconnectFails ==
    [][\A l \in Links : \A i \in 1..MaxConns :
          ( /\ DisconnectHandled(l, i)
            /\ conns[l][i].peerId # NoNode
            /\ peers[l[2]][conns[l][i].peerId] = i )
          => LET p == conns[l][i].peerId
             IN  /\ peers'[l[2]][p] = NoSocket
                 /\ lastHeartbeat'[l[2]][p] = NoBeat
                 /\ [nodeId |-> p, status |-> "failed"] \in
                       Range(getClusterStatus(l[2]).nodes)']_vars

\* C38: when a peer has identified itself on a second connection while an
\* earlier one is open, the disconnect of the earlier connection leaves the
\* entries of the peer in peers and lastHeartbeat
C38_EarlierDisconnectKeepsLink ==
    [][\A l \in Links : \A i \in 1..MaxConns :
          LET s == l[2]
              p == IF i \in 1..Len(conns[l]) THEN conns[l][i].peerId ELSE NoNode
          IN  ( /\ DisconnectHandled(l, i)
                /\ p # NoNode
                /\ peers[s][p] \notin {NoSocket, i}
                /\ conns[l][peers[s][p]].connected
                /\ ~conns[l][peers[s][p]].disconnect )
              => /\ peers'[s][p] = peers[s][p]
                 /\ lastHeartbeat'[s][p] = lastHeartbeat[s][p]]_vars

\* C37: two running nodes with an open link between them never declare each
\* other failed
C37_LinkedNeverDeclared ==
    \A n \in NodeIds : \A p \in NodeIds \ {n} :
        ( /\ Up(n) /\ Up(p)
          /\ \E i \in 1..Len(conns[<<p, n>>]) :
                /\ conns[<<p, n>>][i].connected
                /\ ~conns[<<p, n>>][i].disconnect
                /\ conns[<<p, n>>][i].peerId = p )
        => p \notin declared[n]

\* C40: at every node the peers timed in lastHeartbeat are the peers that
\* peers holds a link for
C40_TimedIffLinked ==
    \A n \in NodeIds :
        {p \in NodeIds : lastHeartbeat[n][p] # NoBeat} =
           {p \in NodeIds : peers[n][p] # NoSocket}

-----------------------------------------------------------------------------
(* Termination of the requests *)

\* C33: every PUT and every GET returns a result to its caller, as long as
\* its coordinator runs: each branch of the fan-out ends in a reply or in its
\* timeout, also when the target never replies or is killed while the
\* request waits.  Whenever requests wait, a state follows in which each of
\* them has returned.
C33_EveryRequestReturns == Waiting ~> ~Waiting

\* a PUT returned with the timeout of a target that was killed while the
\* request waited
C33_Witness ==
    \E i \in 1..Len(puts) :
        /\ puts[i].done
        /\ \E j \in TimedOut(puts[i].writeResults) :
              LET t == puts[i].writeResults[j].nodeId
              IN  /\ status[t] = "dead"
                  /\ killedAt[t].at < puts[i].deadline

=============================================================================
